---- MODULE Spec2Model ----
(***************************************************************************)
(* like_and_subscribe: the durable subscription queue and its consumer,    *)
(* the renewal scheduler, the reconciliation loop and the hub's            *)
(* confirmation callback, over the persisted store (sea-orm tables).       *)
(*                                                                         *)
(* Time is counted in hours: every duration of the program (24 h window,   *)
(* 1 h delay, 24 h fallback sleep, 1 h reconciliation interval) is a whole *)
(* number of hours.                                                        *)
(***************************************************************************)
EXTENDS Integers, Sequences, FiniteSets, TLC

\* ------------------------------------------------------------------ bounds
\* Channel ids, in a fixed order (used where the code iterates a collection).
TopicOrder == <<"A", "B", "C">>
Topics == {TopicOrder[i] : i \in 1..Len(TopicOrder)}
\* Rows the subscription_queue table may hold in the full specifications.
MaxQueue == 2
\* Queue rows of the drain specification: one processed before and as many
\* pending ones as the concurrency bound.
MaxDrain == 11
\* Last instant of the clock.
MaxTime == 27
\* Versions of the upstream subscription list.
MaxVersion == 1
\* Process restarts.
MaxRestarts == 1
\* Hours the reconciliation specification lets the clock run.
ReconHorizon == 2
\* Hours the token specification lets the clock run.
TokenHorizon == 2
\* Refresh-token grants requested, and credentials issued, in the token specification.
MaxRefreshes == 2
MaxCreds == 3
\* The tasks calling wait_for_token.
Callers == {"w1", "w2"}
\* GET requests on the callback route in the callback specification.
MaxRequests == 2
\* Pending actions of the concurrency specification (one more than the limit).
MaxPending == 11

\* ------------------------------------------------------- program constants
\* try_for_each_concurrent(10, ..)
ConcurrencyLimit == 10
\* refresh_window, refresh_delay, the sleep without subscriptions (hours)
RefreshWindow == 24
RefreshDelay == 1
FallbackSleep == 24
\* update_interval (hours)
UpdateInterval == 1
\* maxResults of one page of the upstream list, scaled from 50 to the size of Topics
MaxResults == 2
\* hub.lease_seconds values the hub grants (hours)
Leases == {2, 30}
LongLeases == {30}

\* expires_in of a token response (hours)
ExpiresIn == 1

NoRow == 0 - 1
\* No credential: the o_auth table without its row, or nothing to return.
NoCred == [id |-> 0, expires_at |-> 0]
NoEtag == <<>>

VARIABLES
    now,          \* Timestamp::now(), hours
    shutdown,     \* CancellationToken: cancelled or not
    restarts,     \* process restarts so far
    registry,     \* active_subscriptions: channel_id -> expiration, NoRow when absent
    known,        \* known_channels: the channel ids with a row
    queue,        \* subscription_queue: row i has id i
    results,      \* subscription_queue_result: set of rows
    hubCalls,     \* POSTs to the hub issued for queue row i
    hubPending,   \* requests the hub accepted and has not verified yet
    permit,       \* tokio Notify: a stored wake
    cPc, cStream, cInflight,                    \* pubsub_queue_consumer
    sPc, sWakeAt, sSoonest,                     \* pubsub_refresh
    rPc, rNextTick, rPrevious, rLastEtag, rPageToken, rCollected,  \* subscription_manager
    upstream, upVersion,                        \* the upstream "my subscriptions" list
    token,        \* what subscription_manager sees of the TokenManager: "Existing"
                  \* while wait_for_token would return, else "Missing"
    current_token,    \* TokenManagerInner.current_token: TokenStatus
    oauthRow,         \* o_auth row 0: the stored credential
    alerts,           \* messages sent on mail_send
    refreshes,        \* refresh-token grants requested from the provider
    issued,           \* credentials the provider has issued
    tLock,            \* holder of the current_token Mutex
    wPc, wResult,     \* wait_for_token calls: position, token returned
    lPc, lCred, lResult,  \* load_new_token: position, new credential, outcome
    vQuery, vResponse,    \* pubsub_subscription_validation: the last query and its answer
    vHandled              \* GET requests on the callback route answered so far

dbVars == <<registry, known, queue, results>>
consumerVars == <<cPc, cStream, cInflight>>
schedVars == <<sPc, sWakeAt, sSoonest>>
reconVars == <<rPc, rNextTick, rPrevious, rLastEtag, rPageToken, rCollected>>
tokenVars == <<current_token, oauthRow, alerts, refreshes, issued, tLock,
               wPc, wResult, lPc, lCred, lResult>>
webVars == <<vQuery, vResponse, vHandled>>
envVars == <<upstream, upVersion, token, tokenVars, webVars>>
\* Everything but the TokenManager.
coreVars == <<now, shutdown, restarts, registry, known, queue, results, hubCalls, hubPending,
              permit, cPc, cStream, cInflight, sPc, sWakeAt, sSoonest,
              rPc, rNextTick, rPrevious, rLastEtag, rPageToken, rCollected,
              upstream, upVersion, token, vQuery, vResponse, vHandled>>
vars == <<now, shutdown, restarts, registry, known, queue, results, hubCalls, hubPending,
          permit, cPc, cStream, cInflight, sPc, sWakeAt, sSoonest,
          rPc, rNextTick, rPrevious, rLastEtag, rPageToken, rCollected,
          upstream, upVersion, token, current_token, oauthRow, alerts, refreshes, issued,
          tLock, wPc, wResult, lPc, lCred, lResult, vQuery, vResponse, vHandled>>

\* ------------------------------------------------------------------ helpers
Min(a, b) == IF a < b THEN a ELSE b

\* The elements of S in TopicOrder.
SortedSeq(S) == SelectSeq(TopicOrder, LAMBDA t : t \in S)

Rows == {t \in Topics : registry[t] # NoRow}

HasResult(i) == \E r \in results : r.queue_id = i

\* ------------------------------------------------------------ the store
\* ActiveSubscriptions::get_all_channel_ids
GetAllChannelIds == Rows

\* ActiveSubscriptions::get_soonest_expiration: MIN(expiration), None when empty
GetSoonestExpiration ==
    IF Rows = {} THEN NoRow
    ELSE CHOOSE e \in {registry[t] : t \in Rows} : \A t \in Rows : e <= registry[t]

\* The filter with lte: a row expiring exactly at expires_before is returned.
GetExpiringInclusive(expires_before) == {t \in Rows : registry[t] <= expires_before}

\* ActiveSubscriptions::get_expiring: expiration < expires_before
GetExpiring(expires_before) == {t \in Rows : registry[t] < expires_before}

\* The foreign keys of subscription_queue and active_subscriptions to known_channels.
FkKnown(ids) == ids \subseteq known

\* SubscriptionQueue::add_actions: the rows insert_many appends, in batch order.
NewRows(batch) == [i \in 1..Len(batch) |->
                     [channel_id |-> batch[i][1], action |-> batch[i][2], timestamp |-> now]]

BatchIds(batch) == {batch[i][1] : i \in 1..Len(batch)}

\* SubscriptionQueue::get_pending_actions: the queue rows without a result row,
\* each joined with its active_subscriptions row.
GetPendingActionsAll ==
    [i \in 1..Len(queue) |-> [id |-> i, active |-> registry[queue[i].channel_id] # NoRow]]

GetPendingActions ==
    SelectSeq([i \in 1..Len(queue) |->
                 [id |-> i, active |-> registry[queue[i].channel_id] # NoRow]],
              LAMBDA item : ~HasResult(item.id))

\* The table after every row is replaced by the new one (a single-row upsert).
InsertResultSingleRow(rows, row) == {row}

\* subscription_queue_result insert: queue_id is the primary key, no on_conflict.
InsertResult(rows, row) == rows \cup {row}

PkConflict(rows, row) == \E r \in rows : r.queue_id = row.queue_id
\* ------------------------------------------------- pubsub_queue_consumer
\* Refresh of an active subscription asks the hub to end it.
ModeRefreshUnsubscribes(item) ==
    CASE queue[item.id].action = "Subscribe" -> "subscribe"
      [] queue[item.id].action = "Unsubscribe" -> "unsubscribe"
      [] queue[item.id].action = "Refresh" /\ item.active -> "unsubscribe"
      [] OTHER -> "none"

\* Refresh asks the hub whether or not the join found an active subscription.
ModeAlwaysCalls(item) ==
    IF queue[item.id].action = "Unsubscribe" THEN "unsubscribe" ELSE "subscribe"

\* The hub.mode of the request the closure builds; "none" when it returns Ok(())
\* without a request (Refresh without an active subscription).
Mode(item) ==
    CASE queue[item.id].action = "Subscribe" -> "subscribe"
      [] queue[item.id].action = "Unsubscribe" -> "unsubscribe"
      [] queue[item.id].action = "Refresh" /\ item.active -> "subscribe"
      [] OTHER -> "none"

\* The hub's record of an accepted request: mode and channel of the topic URL.
HubRequest(item) == <<Mode(item), queue[item.id].channel_id>>

\* SubscriptionQueueItem::process builds this row from the closure's result.
ResultRow(item, ok) ==
    [queue_id |-> item.id, error |-> IF ok THEN "None" ELSE "Some", timestamp |-> now]

\* loop head: get_pending_actions
ConsumerFetch ==
    /\ cPc = "fetch"
    /\ cStream' = GetPendingActions
    /\ cPc' = "drain"
    /\ cInflight' = {}
    /\ UNCHANGED <<now, shutdown, restarts, dbVars, hubCalls, hubPending, permit,
                   schedVars, reconVars, envVars>>

\* for_each_concurrent without a limit: every stream item starts at once.
ConsumerStartUnlimited ==
    /\ cPc = "drain"
    /\ cStream # <<>>
    /\ cInflight' = cInflight \cup {Head(cStream)}
    /\ cStream' = Tail(cStream)
    /\ UNCHANGED <<now, shutdown, restarts, dbVars, hubCalls, hubPending, permit,
                   cPc, schedVars, reconVars, envVars>>

\* try_for_each_concurrent: the next stream item starts while fewer than the
\* limit are running.
ConsumerStart ==
    /\ cPc = "drain"
    /\ cStream # <<>>
    /\ Cardinality(cInflight) < ConcurrencyLimit
    /\ cInflight' = cInflight \cup {Head(cStream)}
    /\ cStream' = Tail(cStream)
    /\ UNCHANGED <<now, shutdown, restarts, dbVars, hubCalls, hubPending, permit,
                   cPc, schedVars, reconVars, envVars>>

\* The consumer itself records the subscription when the hub answers 2xx.
ConsumerProcessUpdatesRegistry(item, hubOk) ==
    /\ cPc = "drain"
    /\ item \in cInflight
    /\ Mode(item) = "none" => hubOk
    /\ hubCalls' = IF Mode(item) = "none" THEN hubCalls
                   ELSE [hubCalls EXCEPT ![item.id] = @ + 1]
    /\ hubPending' = hubPending
    /\ registry' = IF Mode(item) = "none" \/ ~hubOk THEN registry
                   ELSE [registry EXCEPT ![queue[item.id].channel_id] =
                            IF Mode(item) = "subscribe" THEN now + RefreshWindow ELSE NoRow]
    /\ results' = InsertResult(results, ResultRow(item, hubOk))
    /\ cInflight' = cInflight \ {item}
    /\ UNCHANGED <<now, shutdown, restarts, known, queue, permit, cPc, cStream,
                   schedVars, reconVars, envVars>>

\* One running item completes: the closure (the hub call, if any) and the insert
\* of its result row. hubOk: the hub answered 2xx.
ConsumerProcess(item, hubOk) ==
    /\ cPc = "drain"
    /\ item \in cInflight
    /\ Mode(item) = "none" => hubOk
    /\ hubCalls' = IF Mode(item) = "none" THEN hubCalls
                   ELSE [hubCalls EXCEPT ![item.id] = @ + 1]
    /\ hubPending' = IF Mode(item) # "none" /\ hubOk
                     THEN hubPending \cup {HubRequest(item)} ELSE hubPending
    /\ IF PkConflict(results, ResultRow(item, hubOk))
       THEN /\ cPc' = "failed"
            /\ cInflight' = {}
            /\ cStream' = <<>>
            /\ results' = results
       ELSE /\ results' = InsertResult(results, ResultRow(item, hubOk))
            /\ cInflight' = cInflight \ {item}
            /\ UNCHANGED <<cPc, cStream>>
    /\ UNCHANGED <<now, shutdown, restarts, registry, known, queue, permit,
                   schedVars, reconVars, envVars>>

\* The store fails: at the fetch, or at the insert of a result row after the
\* closure ran. try_for_each_concurrent returns the error and drops the other
\* running items; `sent` are those whose request the hub had already accepted.
ConsumerFetchFail ==
    /\ cPc = "fetch"
    /\ cPc' = "failed"
    /\ UNCHANGED <<now, shutdown, restarts, dbVars, hubCalls, hubPending, permit,
                   cStream, cInflight, schedVars, reconVars, envVars>>

\* The failed insert is recorded as the error result of its action.
ConsumerInsertFailWritesError(item, hubOk, sent) ==
    /\ cPc = "drain"
    /\ item \in cInflight
    /\ Mode(item) = "none" => hubOk
    /\ sent \subseteq {x \in cInflight \ {item} : Mode(x) # "none"}
    /\ hubCalls' = [i \in DOMAIN hubCalls |->
                      IF (i = item.id /\ Mode(item) # "none") \/ (\E x \in sent : x.id = i)
                      THEN hubCalls[i] + 1 ELSE hubCalls[i]]
    /\ hubPending' = hubPending \cup {HubRequest(x) : x \in sent}
                        \cup {HubRequest(x) : x \in {y \in {item} : Mode(y) # "none" /\ hubOk}}
    /\ results' = InsertResult(results, ResultRow(item, FALSE))
    /\ cPc' = "failed"
    /\ cInflight' = {}
    /\ cStream' = <<>>
    /\ UNCHANGED <<now, shutdown, restarts, registry, known, queue, permit,
                   schedVars, reconVars, envVars>>

ConsumerInsertFail(item, hubOk, sent) ==
    /\ cPc = "drain"
    /\ item \in cInflight
    /\ Mode(item) = "none" => hubOk
    /\ sent \subseteq {x \in cInflight \ {item} : Mode(x) # "none"}
    /\ hubCalls' = [i \in DOMAIN hubCalls |->
                      IF (i = item.id /\ Mode(item) # "none") \/ (\E x \in sent : x.id = i)
                      THEN hubCalls[i] + 1 ELSE hubCalls[i]]
    /\ hubPending' = hubPending \cup {HubRequest(x) : x \in sent}
                        \cup {HubRequest(x) : x \in {y \in {item} : Mode(y) # "none" /\ hubOk}}
    /\ cPc' = "failed"
    /\ cInflight' = {}
    /\ cStream' = <<>>
    /\ UNCHANGED <<now, shutdown, restarts, dbVars, permit,
                   schedVars, reconVars, envVars>>

\* The stream is exhausted and every started item has finished.
ConsumerDrainedEarly ==
    /\ cPc = "drain"
    /\ cStream = <<>>
    /\ cPc' = "wait"
    /\ cInflight' = {}
    /\ UNCHANGED <<now, shutdown, restarts, dbVars, hubCalls, hubPending, permit,
                   cStream, schedVars, reconVars, envVars>>

ConsumerDrained ==
    /\ cPc = "drain"
    /\ cStream = <<>>
    /\ cInflight = {}
    /\ cPc' = "wait"
    /\ UNCHANGED <<now, shutdown, restarts, dbVars, hubCalls, hubPending, permit,
                   cStream, cInflight, schedVars, reconVars, envVars>>

\* The wake-up leaves the stored wake in place.
ConsumerWakeKeepsPermit ==
    /\ cPc = "wait"
    /\ permit
    /\ permit' = permit
    /\ cPc' = "fetch"
    /\ UNCHANGED <<now, shutdown, restarts, dbVars, hubCalls, hubPending,
                   cStream, cInflight, schedVars, reconVars, envVars>>

\* select!: notify.notified() takes the stored wake
ConsumerWake ==
    /\ cPc = "wait"
    /\ permit
    /\ permit' = FALSE
    /\ cPc' = "fetch"
    /\ UNCHANGED <<now, shutdown, restarts, dbVars, hubCalls, hubPending,
                   cStream, cInflight, schedVars, reconVars, envVars>>

\* select!: shutdown.cancelled()
ConsumerShutdown ==
    /\ cPc = "wait"
    /\ shutdown
    /\ cPc' = "done"
    /\ UNCHANGED <<now, shutdown, restarts, dbVars, hubCalls, hubPending, permit,
                   cStream, cInflight, schedVars, reconVars, envVars>>

\* --------------------------------------------- SubscriptionQueue::add_actions
\* insert_many of the batch, then notify_one. The insert is refused as a whole
\* when a channel_id has no known_channels row. An empty batch is taken to
\* insert nothing and succeed, so that the notify_one still runs.
AddActionsOk(batch) == FkKnown(BatchIds(batch))

\* The insert without the notify_one.
AddActionsSilently(batch) ==
    /\ queue' = queue \o NewRows(batch)
    /\ hubCalls' = hubCalls \o [i \in 1..Len(batch) |-> 0]
    /\ permit' = permit

AddActions(batch) ==
    /\ queue' = queue \o NewRows(batch)
    /\ hubCalls' = hubCalls \o [i \in 1..Len(batch) |-> 0]
    /\ permit' = TRUE

AsBatch(ids, action) == [i \in 1..Len(SortedSeq(ids)) |-> <<SortedSeq(ids)[i], action>>]

\* ---------------------------------------------------------- pubsub_refresh
\* The sleep the loop computes from the soonest expiration e: the signed
\* difference, converted to an unsigned Duration.
SleepFor(e) == (e - now) - (RefreshWindow - RefreshDelay)

\* Without subscriptions the loop goes on at once instead of waiting a day.
SchedComputeWithoutFallback ==
    /\ sPc = "compute"
    /\ sSoonest' = GetSoonestExpiration
    /\ IF GetSoonestExpiration = NoRow
       THEN /\ sWakeAt' = now
            /\ sPc' = "sleep"
       ELSE IF SleepFor(GetSoonestExpiration) < 0
       THEN \* try_into().expect("duration should never be negative")
            /\ sPc' = "panicked"
            /\ sWakeAt' = sWakeAt
       ELSE /\ sWakeAt' = now + SleepFor(GetSoonestExpiration)
            /\ sPc' = "sleep"
    /\ UNCHANGED <<now, shutdown, restarts, dbVars, hubCalls, hubPending, permit,
                   consumerVars, reconVars, envVars>>

SchedCompute ==
    /\ sPc = "compute"
    /\ sSoonest' = GetSoonestExpiration
    /\ IF GetSoonestExpiration = NoRow
       THEN /\ sWakeAt' = now + FallbackSleep
            /\ sPc' = "sleep"
       ELSE IF SleepFor(GetSoonestExpiration) < 0
       THEN \* try_into().expect("duration should never be negative")
            /\ sPc' = "panicked"
            /\ sWakeAt' = sWakeAt
       ELSE /\ sWakeAt' = now + SleepFor(GetSoonestExpiration)
            /\ sPc' = "sleep"
    /\ UNCHANGED <<now, shutdown, restarts, dbVars, hubCalls, hubPending, permit,
                   consumerVars, reconVars, envVars>>

\* The sleep ends: get_expiring(now + refresh_window), then add_actions.
SchedWake ==
    /\ sPc = "sleep"
    /\ now >= sWakeAt
    /\ Len(queue) + Cardinality(GetExpiring(now + RefreshWindow)) <= MaxQueue
    /\ IF AddActionsOk(AsBatch(GetExpiring(now + RefreshWindow), "Refresh"))
       THEN /\ AddActions(AsBatch(GetExpiring(now + RefreshWindow), "Refresh"))
            /\ sPc' = "compute"
       ELSE /\ sPc' = "failed"
            /\ UNCHANGED <<queue, hubCalls, permit>>
    /\ UNCHANGED <<now, shutdown, restarts, registry, known, results, hubPending,
                   consumerVars, sWakeAt, sSoonest, reconVars, envVars>>

SchedShutdown ==
    /\ sPc = "sleep"
    /\ shutdown
    /\ sPc' = "done"
    /\ UNCHANGED <<now, shutdown, restarts, dbVars, hubCalls, hubPending, permit,
                   consumerVars, sWakeAt, sSoonest, reconVars, envVars>>

\* ---------------------------------------------------- subscription_manager
\* The upstream list in pages of MaxResults, each response with its own ETag.
PageOf(p) == IF p = 0 THEN 1 ELSE p

Etag(p) == <<upVersion, p>>

PageItems(p) ==
    {SortedSeq(upstream)[i] :
        i \in ((p - 1) * MaxResults + 1)..Min(p * MaxResults, Cardinality(upstream))}

NextPageToken(p) == IF p * MaxResults < Cardinality(upstream) THEN p + 1 ELSE 0

\* update_interval.tick(), then get_all_channel_ids
ReconTick ==
    /\ rPc = "tick"
    /\ now >= rNextTick
    /\ rNextTick' = now + UpdateInterval
    /\ rPrevious' = GetAllChannelIds
    /\ rPc' = "token"
    /\ UNCHANGED <<now, shutdown, restarts, dbVars, hubCalls, hubPending, permit,
                   consumerVars, schedVars, rLastEtag, rPageToken, rCollected,
                   envVars>>

\* shutdown.cancelled() in the first select! only.
ReconShutdownAtTickOnly ==
    /\ rPc = "tick"
    /\ shutdown
    /\ rPc' = "done"
    /\ UNCHANGED <<now, shutdown, restarts, dbVars, hubCalls, hubPending, permit,
                   consumerVars, schedVars, rNextTick, rPrevious, rLastEtag,
                   rPageToken, rCollected, envVars>>

\* shutdown.cancelled() in either select!
ReconShutdown ==
    /\ rPc \in {"tick", "token"}
    /\ shutdown
    /\ rPc' = "done"
    /\ UNCHANGED <<now, shutdown, restarts, dbVars, hubCalls, hubPending, permit,
                   consumerVars, schedVars, rNextTick, rPrevious, rLastEtag,
                   rPageToken, rCollected, envVars>>

\* token_manager.wait_for_token() returns once a usable credential exists
ReconToken ==
    /\ rPc = "token"
    /\ token = "Existing"
    /\ rPc' = "fetch"
    /\ rPageToken' = 0
    /\ rCollected' = {}
    /\ UNCHANGED <<now, shutdown, restarts, dbVars, hubCalls, hubPending, permit,
                   consumerVars, schedVars, rNextTick, rPrevious, rLastEtag,
                   envVars>>

\* Not Modified (or a failure) is taken for an empty list and the tick goes on.
ReconPageEmptyOnNotModified(failed) ==
    /\ rPc = "fetch"
    /\ IF rLastEtag = Etag(PageOf(rPageToken)) \/ failed
       THEN /\ rPc' = "enqueue"
            /\ rCollected' = {}
            /\ UNCHANGED <<rLastEtag, rPageToken>>
       ELSE /\ rLastEtag' = IF rPageToken = 0 THEN Etag(PageOf(rPageToken)) ELSE rLastEtag
            /\ rCollected' = rCollected \cup PageItems(PageOf(rPageToken))
            /\ rPageToken' = NextPageToken(PageOf(rPageToken))
            /\ rPc' = IF NextPageToken(PageOf(rPageToken)) = 0 THEN "enqueue" ELSE "fetch"
    /\ UNCHANGED <<now, shutdown, restarts, dbVars, hubCalls, hubPending, permit,
                   consumerVars, schedVars, rNextTick, rPrevious, envVars>>

\* The ETag of every page is kept, not only the first page's.
ReconPageEveryEtag(failed) ==
    /\ rPc = "fetch"
    /\ IF rLastEtag = Etag(PageOf(rPageToken)) \/ failed
       THEN /\ rPc' = "done"
            /\ UNCHANGED <<rLastEtag, rPageToken, rCollected>>
       ELSE /\ rLastEtag' = Etag(PageOf(rPageToken))
            /\ rCollected' = rCollected \cup PageItems(PageOf(rPageToken))
            /\ rPageToken' = NextPageToken(PageOf(rPageToken))
            /\ rPc' = IF NextPageToken(PageOf(rPageToken)) = 0 THEN "enqueue" ELSE "fetch"
    /\ UNCHANGED <<now, shutdown, restarts, dbVars, hubCalls, hubPending, permit,
                   consumerVars, schedVars, rNextTick, rPrevious, envVars>>

\* get_all_subscriptions: one page request with If-None-Match: last_etag.
\* failed: the upstream answers a non-success status.
ReconPage(failed) ==
    /\ rPc = "fetch"
    /\ IF rLastEtag = Etag(PageOf(rPageToken)) \/ failed
       THEN \* 304 Not Modified, or !status.is_success(): break None, then
            \* `None => break` leaves the loop of subscription_manager
            /\ rPc' = "done"
            /\ UNCHANGED <<rLastEtag, rPageToken, rCollected>>
       ELSE /\ rLastEtag' = IF rPageToken = 0 THEN Etag(PageOf(rPageToken)) ELSE rLastEtag
            /\ rCollected' = rCollected \cup PageItems(PageOf(rPageToken))
            /\ rPageToken' = NextPageToken(PageOf(rPageToken))
            /\ rPc' = IF NextPageToken(PageOf(rPageToken)) = 0 THEN "enqueue" ELSE "fetch"
    /\ UNCHANGED <<now, shutdown, restarts, dbVars, hubCalls, hubPending, permit,
                   consumerVars, schedVars, rNextTick, rPrevious, envVars>>

\* The batch of the tick: Subscribe for the added, chained with Unsubscribe for
\* the removed channels.
DiffBatch(previous, current) ==
    AsBatch(current \ previous, "Subscribe") \o AsBatch(previous \ current, "Unsubscribe")

ReconEnqueue ==
    /\ rPc = "enqueue"
    /\ Len(queue) < MaxQueue
    /\ IF AddActionsOk(DiffBatch(rPrevious, rCollected))
       THEN /\ AddActions(DiffBatch(rPrevious, rCollected))
            /\ rPc' = "upsert"
       ELSE \* DbErr: the task returns the error
            /\ rPc' = "failed"
            /\ UNCHANGED <<queue, hubCalls, permit>>
    /\ UNCHANGED <<now, shutdown, restarts, registry, known, results, hubPending,
                   consumerVars, schedVars, rNextTick, rPrevious, rLastEtag,
                   rPageToken, rCollected, envVars>>

\* KnownChannels::add_channels: upsert of every channel of the fetch
ReconAddChannels ==
    /\ rPc = "upsert"
    /\ known' = known \cup rCollected
    /\ rPc' = "tick"
    /\ UNCHANGED <<now, shutdown, restarts, registry, queue, results, hubCalls, hubPending,
                   permit, consumerVars, schedVars, rNextTick, rPrevious,
                   rLastEtag, rPageToken, rCollected, envVars>>

\* ------------------------------------------ pubsub_subscription_validation
\* The hub verifies a request it accepted: GET on the callback.
HubConfirm(req, lease) ==
    /\ req \in hubPending
    /\ ~shutdown
    /\ hubPending' = hubPending \ {req}
    /\ IF req[1] = "subscribe"
       THEN \* add_subscription(channel_id, now + lease_seconds), an upsert; the
            \* foreign key refuses a channel without a known_channels row
            IF FkKnown({req[2]})
            THEN registry' = [registry EXCEPT ![req[2]] = now + lease]
            ELSE UNCHANGED registry
       ELSE \* remove_subscription(channel_id)
            registry' = [registry EXCEPT ![req[2]] = NoRow]
    /\ UNCHANGED <<now, shutdown, restarts, known, queue, results, hubCalls, permit,
                   consumerVars, schedVars, reconVars, envVars>>

\* The query string of a GET on the callback route. A parameter is a sequence:
\* empty when the request does not carry it, else its one value.
Absent == <<>>

\* hub.topic values: the feed URL of a channel, or some other URL.
FeedUrl(t) == [prefix |-> "https://www.youtube.com/xml/feeds/videos.xml?channel_id=", rest |-> t]

OtherUrl == [prefix |-> "", rest |-> "https://example.org/feed"]

\* hub.lease_seconds values: decimal digits, or other text.
Digits(n) == [digits |-> TRUE, value |-> n]

NotDigits == [digits |-> FALSE, value |-> 0]

Queries ==
    [mode : {Absent, <<"subscribe">>, <<"unsubscribe">>, <<"publish">>},
     topic : {Absent, <<OtherUrl>>} \cup {<<FeedUrl(t)>> : t \in Topics},
     challenge : {Absent, <<"c1">>, <<"c2">>},
     lease_seconds : {Absent, <<NotDigits>>} \cup {<<Digits(l)>> : l \in Leases}]

NoQuery == [mode |-> Absent, topic |-> Absent, challenge |-> Absent, lease_seconds |-> Absent]

\* Result<String, StatusCode> as the response; "none" when the handler panics
\* and the connection is closed without a response.
NoResponse == [status |-> "none", body |-> ""]

Challenge(query) == [status |-> "OK", body |-> query.challenge[1]]

Status(code) == [status |-> code, body |-> ""]

\* Query<HubChallenge>: the enum tagged by hub.mode, each variant with its
\* required fields (unknown parameters are ignored).
HubChallenge(query) ==
    IF query.mode = <<"subscribe">> /\ Len(query.topic) = 1 /\ Len(query.challenge) = 1
                                  /\ Len(query.lease_seconds) = 1
    THEN "Subscribe"
    ELSE IF query.mode = <<"unsubscribe">> /\ Len(query.topic) = 1 /\ Len(query.challenge) = 1
    THEN "Unsubscribe"
    ELSE "Err"

\* channel_id_from_topic_url: the topic without the feed prefix; a topic that
\* does not start with it is left as it is.
ChannelIdFromTopicUrl(topic) == topic.rest

\* The delete without its filter on the id.
RemoveSubscriptionAll(id) == [t \in Topics |-> NoRow]

\* ActiveSubscriptions::remove_subscription: delete_by_id, also without a row.
RemoveSubscription(id) == [t \in Topics |-> IF t = id THEN NoRow ELSE registry[t]]

\* ActiveSubscriptions::add_subscription: insert, on conflict update; refused
\* for a channel without a known_channels row.
AddSubscriptionOk(channel_id) == FkKnown({channel_id})

\* The insert without the on_conflict clause, the conflict ignored.
AddSubscriptionKeepsRow(channel_id, expiration) ==
    [t \in Topics |-> IF t = channel_id /\ registry[t] = NoRow THEN expiration ELSE registry[t]]

AddSubscription(channel_id, expiration) ==
    [t \in Topics |-> IF t = channel_id THEN expiration ELSE registry[t]]

\* pubsub_subscription_validation on a GET with this query. dbOk: the store
\* executes the statement (no I/O failure).
PubsubSubscriptionValidation(query, dbOk) ==
    /\ ~shutdown
    /\ vHandled < MaxRequests
    /\ vHandled' = vHandled + 1
    /\ vQuery' = query
    /\ CASE HubChallenge(query) = "Unsubscribe" ->
              IF dbOk
              THEN /\ registry' = RemoveSubscription(ChannelIdFromTopicUrl(query.topic[1]))
                   /\ vResponse' = Challenge(query)
              ELSE /\ registry' = registry
                   /\ vResponse' = Status("INTERNAL_SERVER_ERROR")
         [] HubChallenge(query) = "Subscribe" ->
              IF ~query.lease_seconds[1].digits
              THEN \* parse::<i64>().expect("lease seconds should always be a number")
                   /\ registry' = registry
                   /\ vResponse' = NoResponse
              ELSE IF dbOk /\ AddSubscriptionOk(ChannelIdFromTopicUrl(query.topic[1]))
              THEN /\ registry' = AddSubscription(ChannelIdFromTopicUrl(query.topic[1]),
                                                  now + query.lease_seconds[1].value)
                   /\ vResponse' = Challenge(query)
              ELSE /\ registry' = registry
                   /\ vResponse' = Status("INTERNAL_SERVER_ERROR")
         [] OTHER ->
              /\ registry' = registry
              /\ vResponse' = Status("BAD_REQUEST")
    /\ UNCHANGED <<now, shutdown, restarts, known, queue, results, hubCalls, hubPending,
                   permit, consumerVars, schedVars, reconVars, upstream, upVersion, token,
                   tokenVars>>

\* ------------------------------------------------------------ environment
\* An hour passes; an armed timer fires before the clock moves past it, and the
\* scheduler's computation of its sleep takes no time.
Tick ==
    /\ now < MaxTime
    /\ sPc # "compute"
    /\ sPc = "sleep" => now < sWakeAt
    /\ rPc = "tick" => now < rNextTick
    /\ now' = now + 1
    /\ UNCHANGED <<shutdown, restarts, dbVars, hubCalls, hubPending, permit,
                   consumerVars, schedVars, reconVars, envVars>>

\* The user changes the subscriptions upstream.
UpstreamChange(U) ==
    /\ upVersion < MaxVersion
    /\ U # upstream
    /\ upstream' = U
    /\ upVersion' = upVersion + 1
    /\ UNCHANGED <<now, shutdown, restarts, dbVars, hubCalls, hubPending, permit,
                   consumerVars, schedVars, reconVars, token, tokenVars, webVars>>

\* A termination signal, or main's select! seeing a task exit: shutdown.cancel()
Exited == {"done", "failed", "panicked"}

ShutdownSignal ==
    /\ ~shutdown
    /\ shutdown' = TRUE
    /\ UNCHANGED <<now, restarts, dbVars, hubCalls, hubPending, permit,
                   consumerVars, schedVars, reconVars, envVars>>

Supervisor ==
    /\ ~shutdown
    /\ cPc \in Exited \/ sPc \in Exited \/ rPc \in Exited
    /\ shutdown' = TRUE
    /\ UNCHANGED <<now, restarts, dbVars, hubCalls, hubPending, permit,
                   consumerVars, schedVars, reconVars, envVars>>

\* The process stops anywhere and is started again: the store stays, the tasks
\* and the Notify start afresh.
Restart ==
    /\ restarts < MaxRestarts
    /\ restarts' = restarts + 1
    /\ shutdown' = FALSE
    /\ permit' = FALSE
    /\ cPc' = (IF cPc = "off" THEN "off" ELSE "fetch") /\ cStream' = <<>> /\ cInflight' = {}
    /\ sPc' = (IF sPc = "off" THEN "off" ELSE "compute")
    /\ rPc' = (IF rPc = "off" THEN "off" ELSE "tick")
    /\ rNextTick' = now /\ rPrevious' = {} /\ rLastEtag' = NoEtag
    /\ rPageToken' = 0 /\ rCollected' = {}
    /\ UNCHANGED <<now, dbVars, hubCalls, hubPending, sWakeAt, sSoonest, envVars>>

\* TokenManager: load_new_token stores a credential; a failed refresh drops it.
LoadNewToken ==
    /\ token = "Missing"
    /\ token' = "Existing"
    /\ UNCHANGED <<now, shutdown, restarts, dbVars, hubCalls, hubPending, permit,
                   consumerVars, schedVars, reconVars, upstream, upVersion, tokenVars,
                   webVars>>

TokenLost ==
    /\ token = "Existing"
    /\ token' = "Missing"
    /\ UNCHANGED <<now, shutdown, restarts, dbVars, hubCalls, hubPending, permit,
                   consumerVars, schedVars, reconVars, upstream, upVersion, tokenVars,
                   webVars>>

\* ------------------------------------------------------------ TokenManager
\* TokenManager::init: Existing with the stored credential, else Missing, not alerted.
TokenManagerInit(status, expires_at) ==
    IF status = "Existing"
    THEN /\ oauthRow = [id |-> 1, expires_at |-> expires_at]
         /\ current_token = [status |-> "Existing", alerted |-> FALSE, cred |-> oauthRow]
         /\ issued = 1
    ELSE /\ oauthRow = NoCred
         /\ current_token = [status |-> "Missing", alerted |-> FALSE, cred |-> NoCred]
         /\ issued = 0

\* Authentication::from_token_response: the credential of a token response,
\* expires_at = now + expires_in.
FromTokenResponse == [id |-> issued + 1, expires_at |-> now + ExpiresIn]

\* OAuth::save_token: upsert of row 0.
SaveToken(authentication) == authentication

\* OAuth::remove_token: the credential is removed from the store.
RemoveToken == NoCred

\* A task calls wait_for_token.
WaitCall(c) ==
    /\ wPc[c] = "idle"
    /\ wPc' = [wPc EXCEPT ![c] = "lock"]
    /\ wResult' = [wResult EXCEPT ![c] = 0]
    /\ UNCHANGED <<coreVars, current_token, oauthRow, alerts, refreshes, issued, tLock,
                   lPc, lCred, lResult>>

\* The guard is taken whether or not another task holds it.
WaitLockWithoutExclusion(c) ==
    /\ wPc[c] = "lock"
    /\ tLock' = c
    /\ wPc' = [wPc EXCEPT ![c] = "match"]
    /\ UNCHANGED <<coreVars, current_token, oauthRow, alerts, refreshes, issued,
                   wResult, lPc, lCred, lResult>>

\* loop head: current_token.lock().await
WaitLock(c) ==
    /\ wPc[c] = "lock"
    /\ tLock = "none"
    /\ tLock' = c
    /\ wPc' = [wPc EXCEPT ![c] = "match"]
    /\ UNCHANGED <<coreVars, current_token, oauthRow, alerts, refreshes, issued,
                   wResult, lPc, lCred, lResult>>

\* The credential is returned after one more refresh-token grant.
WaitReturnAfterRefresh(c) ==
    /\ wPc[c] = "match"
    /\ current_token.status = "Existing"
    /\ now <= current_token.cred.expires_at
    /\ refreshes < MaxRefreshes
    /\ refreshes' = refreshes + 1
    /\ wResult' = [wResult EXCEPT ![c] = current_token.cred.id]
    /\ wPc' = [wPc EXCEPT ![c] = "idle"]
    /\ tLock' = "none"
    /\ UNCHANGED <<coreVars, current_token, oauthRow, alerts, issued,
                   lPc, lCred, lResult>>

\* Existing, duration_until(expires_at) >= 0: return the access token
WaitReturn(c) ==
    /\ wPc[c] = "match"
    /\ current_token.status = "Existing"
    /\ now <= current_token.cred.expires_at
    /\ wResult' = [wResult EXCEPT ![c] = current_token.cred.id]
    /\ wPc' = [wPc EXCEPT ![c] = "idle"]
    /\ tLock' = "none"
    /\ UNCHANGED <<coreVars, current_token, oauthRow, alerts, refreshes, issued,
                   lPc, lCred, lResult>>

\* A call that finds a newer, usable credential in the store returns it
\* instead of requesting a refresh of its own.
WaitRefreshRequestCoalesced(c) ==
    /\ wPc[c] = "match"
    /\ current_token.status = "Existing"
    /\ now > current_token.cred.expires_at
    /\ IF oauthRow # NoCred /\ oauthRow.id # current_token.cred.id /\ now <= oauthRow.expires_at
       THEN /\ wResult' = [wResult EXCEPT ![c] = oauthRow.id]
            /\ wPc' = [wPc EXCEPT ![c] = "idle"]
            /\ tLock' = "none"
            /\ refreshes' = refreshes
       ELSE /\ refreshes < MaxRefreshes
            /\ refreshes' = refreshes + 1
            /\ wPc' = [wPc EXCEPT ![c] = "refresh"]
            /\ UNCHANGED <<tLock, wResult>>
    /\ UNCHANGED <<coreVars, current_token, oauthRow, alerts, issued, lPc, lCred, lResult>>

\* The guard is dropped before the request is awaited.
WaitRefreshRequestUnlocked(c) ==
    /\ wPc[c] = "match"
    /\ current_token.status = "Existing"
    /\ now > current_token.cred.expires_at
    /\ refreshes < MaxRefreshes
    /\ refreshes' = refreshes + 1
    /\ wPc' = [wPc EXCEPT ![c] = "refresh"]
    /\ tLock' = "none"
    /\ UNCHANGED <<coreVars, current_token, oauthRow, alerts, issued,
                   wResult, lPc, lCred, lResult>>

\* Existing and expired: exchange_refresh_token(..).request_async(..), awaited
\* with the guard held.
WaitRefreshRequest(c) ==
    /\ wPc[c] = "match"
    /\ current_token.status = "Existing"
    /\ now > current_token.cred.expires_at
    /\ refreshes < MaxRefreshes
    /\ refreshes' = refreshes + 1
    /\ wPc' = [wPc EXCEPT ![c] = "refresh"]
    /\ UNCHANGED <<coreVars, current_token, oauthRow, alerts, issued, tLock,
                   wResult, lPc, lCred, lResult>>

\* The refresh succeeds: save_token, return the new access token (the guard
\* is dropped with the return). current_token is not assigned.
WaitRefreshOk(c) ==
    /\ wPc[c] = "refresh"
    /\ issued < MaxCreds
    /\ issued' = issued + 1
    /\ oauthRow' = SaveToken(FromTokenResponse)
    /\ wResult' = [wResult EXCEPT ![c] = FromTokenResponse.id]
    /\ wPc' = [wPc EXCEPT ![c] = "idle"]
    /\ tLock' = "none"
    /\ UNCHANGED <<coreVars, current_token, alerts, refreshes, lPc, lCred, lResult>>

\* The refresh fails or its response cannot be used: remove_token,
\* send_email. current_token is not assigned.
WaitRefreshFail(c) ==
    /\ wPc[c] = "refresh"
    /\ oauthRow' = RemoveToken
    /\ alerts' = alerts + 1
    /\ wPc' = [wPc EXCEPT ![c] = "unlock"]
    /\ UNCHANGED <<coreVars, current_token, refreshes, issued, tLock, wResult,
                   lPc, lCred, lResult>>

\* Missing { alerted: true }
WaitAlerted(c) ==
    /\ wPc[c] = "match"
    /\ current_token.status = "Missing"
    /\ current_token.alerted
    /\ wPc' = [wPc EXCEPT ![c] = "unlock"]
    /\ UNCHANGED <<coreVars, current_token, oauthRow, alerts, refreshes, issued, tLock,
                   wResult, lPc, lCred, lResult>>

\* Missing { alerted: false }: send_email ...
WaitSendEmail(c) ==
    /\ wPc[c] = "match"
    /\ current_token.status = "Missing"
    /\ ~current_token.alerted
    /\ alerts' = alerts + 1
    /\ wPc' = [wPc EXCEPT ![c] = "flag"]
    /\ UNCHANGED <<coreVars, current_token, oauthRow, refreshes, issued, tLock,
                   wResult, lPc, lCred, lResult>>

\* ... then *alerted = true
WaitSetAlerted(c) ==
    /\ wPc[c] = "flag"
    /\ current_token' = [current_token EXCEPT !.alerted = TRUE]
    /\ wPc' = [wPc EXCEPT ![c] = "unlock"]
    /\ UNCHANGED <<coreVars, oauthRow, alerts, refreshes, issued, tLock,
                   wResult, lPc, lCred, lResult>>

\* The call goes on to the wake signal with the guard still held.
WaitUnlockKeepsGuard(c) ==
    /\ wPc[c] = "unlock"
    /\ tLock' = tLock
    /\ wPc' = [wPc EXCEPT ![c] = "unlocked"]
    /\ UNCHANGED <<coreVars, current_token, oauthRow, alerts, refreshes, issued,
                   wResult, lPc, lCred, lResult>>

\* drop(token)
WaitUnlock(c) ==
    /\ wPc[c] = "unlock"
    /\ tLock' = (IF tLock = c THEN "none" ELSE tLock)
    /\ wPc' = [wPc EXCEPT ![c] = "unlocked"]
    /\ UNCHANGED <<coreVars, current_token, oauthRow, alerts, refreshes, issued,
                   wResult, lPc, lCred, lResult>>

\* notify.notified(): from its creation on the future receives notify_waiters
WaitNotified(c) ==
    /\ wPc[c] = "unlocked"
    /\ wPc' = [wPc EXCEPT ![c] = "waiting"]
    /\ UNCHANGED <<coreVars, current_token, oauthRow, alerts, refreshes, issued, tLock,
                   wResult, lPc, lCred, lResult>>

\* The web front end calls load_new_token with an authorization code.
LoadCall ==
    /\ lPc = "idle"
    /\ lPc' = "exchange"
    /\ lResult' = "none"
    /\ UNCHANGED <<coreVars, current_token, oauthRow, alerts, refreshes, issued, tLock,
                   wPc, wResult, lCred>>

\* load_new_token: the exchange fails, or its response has no refresh token
\* or no expiration; the failed exchange also resets the stored state.
LoadExchangeFailsAndResets ==
    /\ lPc = "exchange"
    /\ lResult' = "Err"
    /\ lPc' = "idle"
    /\ current_token' = [status |-> "Missing", alerted |-> FALSE, cred |-> NoCred]
    /\ UNCHANGED <<coreVars, oauthRow, alerts, refreshes, issued, tLock,
                   wPc, wResult, lCred>>

LoadExchangeFails ==
    /\ lPc = "exchange"
    /\ lResult' = "Err"
    /\ lPc' = "idle"
    /\ UNCHANGED <<coreVars, current_token, oauthRow, alerts, refreshes, issued, tLock,
                   wPc, wResult, lCred>>

\* load_new_token: exchange_code and from_token_response succeed
LoadExchange ==
    /\ lPc = "exchange"
    /\ issued < MaxCreds
    /\ issued' = issued + 1
    /\ lCred' = FromTokenResponse
    /\ lPc' = "set"
    /\ UNCHANGED <<coreVars, current_token, oauthRow, alerts, refreshes, tLock,
                   wPc, wResult, lResult>>

\* *current_token.lock().await = Existing(authentication)
LoadSetToken ==
    /\ lPc = "set"
    /\ tLock = "none"
    /\ current_token' = [status |-> "Existing", alerted |-> FALSE, cred |-> lCred]
    /\ lPc' = "notify"
    /\ UNCHANGED <<coreVars, oauthRow, alerts, refreshes, issued, tLock,
                   wPc, wResult, lCred, lResult>>

\* notify.notify_waiters(): every Notified future that exists completes; its
\* task goes back to the loop head
LoadNotifyWaiters ==
    /\ lPc = "notify"
    /\ wPc' = [c \in Callers |-> IF wPc[c] = "waiting" THEN "lock" ELSE wPc[c]]
    /\ lPc' = "save"
    /\ UNCHANGED <<coreVars, current_token, oauthRow, alerts, refreshes, issued, tLock,
                   wResult, lCred, lResult>>

\* OAuth::save_token, Ok(()); or the store fails and the error is returned
LoadSaveToken(ok) ==
    /\ lPc = "save"
    /\ oauthRow' = (IF ok THEN SaveToken(lCred) ELSE oauthRow)
    /\ lResult' = (IF ok THEN "Ok" ELSE "Err")
    /\ lPc' = "idle"
    /\ UNCHANGED <<coreVars, current_token, alerts, refreshes, issued, tLock,
                   wPc, wResult, lCred>>

\* --------------------------------------------------------- initial states
\* The tasks as main spawns them, and nothing in flight. A specification that
\* studies some of the tasks leaves the others "off".
InitMemory(consumer, scheduler, manager) ==
    /\ shutdown = FALSE
    /\ restarts = 0
    /\ permit = FALSE
    /\ cPc = (IF consumer THEN "fetch" ELSE "off") /\ cStream = <<>> /\ cInflight = {}
    /\ sPc = (IF scheduler THEN "compute" ELSE "off") /\ sWakeAt = 0 /\ sSoonest = NoRow
    /\ rPc = (IF manager THEN "tick" ELSE "off") /\ rNextTick = now /\ rPrevious = {}
    /\ rLastEtag = NoEtag /\ rPageToken = 0 /\ rCollected = {}
    /\ tLock = "none"
    /\ wPc = [c \in Callers |-> "idle"] /\ wResult = [c \in Callers |-> 0]
    /\ lPc = "idle" /\ lCred = NoCred /\ lResult = "none"
    /\ alerts = 0 /\ refreshes = 0
    /\ vQuery = NoQuery /\ vResponse = NoResponse /\ vHandled = 0

\* ------------------------------------------------ the drain specification
\* A queue of n rows cycling through the channels and the three actions.
DrainQueue(n) ==
    [i \in 1..n |-> [channel_id |-> TopicOrder[(i % Len(TopicOrder)) + 1],
                     action |-> IF i % 3 = 1 THEN "Subscribe"
                                ELSE IF i % 3 = 2 THEN "Refresh" ELSE "Unsubscribe",
                     timestamp |-> 0]]

InitDrain ==
    /\ now = 1
    /\ InitMemory(TRUE, FALSE, FALSE)
    /\ hubPending = {}
    /\ known = Topics
    /\ registry = [t \in Topics |-> IF t = "C" THEN 30 ELSE NoRow]
    /\ \E n \in 0..MaxDrain : queue = DrainQueue(n)
    \* row 1 was processed before, when there are at least two rows
    /\ results = {[queue_id |-> 1, error |-> "Some", timestamp |-> 0] : x \in {2} \cap DOMAIN queue}
    /\ hubCalls = [i \in DOMAIN queue |-> 0]
    /\ upstream = {} /\ upVersion = 0 /\ token = "Existing"
    /\ TokenManagerInit(token, now + ExpiresIn)

NextDrain ==
    \/ ConsumerFetch
    \/ ConsumerStart
    \/ \E item \in cInflight, hubOk \in BOOLEAN : ConsumerProcess(item, hubOk)
    \/ ConsumerDrained

DrainSpec == InitDrain /\ [][NextDrain]_vars
\* ------------------------------------------------ the queue specification
\* The consumer, the scheduler as producer, the hub, store failures, shutdown
\* and a restart, at one instant of the clock. The store starts with what an
\* earlier run left: a registry row whose refresh is due at once (sleep 0) or
\* overdue, queue rows, and possibly the error result of the first row.
InitExpirations == {1 + RefreshWindow - RefreshDelay, 1 + RefreshDelay}

InitQueues ==
    {<<>>,
     <<[channel_id |-> "A", action |-> "Unsubscribe", timestamp |-> 0]>>,
     <<[channel_id |-> "B", action |-> "Subscribe", timestamp |-> 0],
       [channel_id |-> "A", action |-> "Unsubscribe", timestamp |-> 0]>>}

Init ==
    /\ now = 1
    /\ InitMemory(TRUE, TRUE, FALSE)
    /\ hubPending = {}
    /\ known = Topics \ {"C"}
    /\ registry \in [Topics -> {NoRow} \cup InitExpirations]
    /\ Rows \subseteq {"A"}
    /\ queue \in InitQueues
    /\ results \in {{}} \cup {{[queue_id |-> 1, error |-> "Some", timestamp |-> 0]} :
                             x \in {1} \cap DOMAIN queue}
    /\ hubCalls = [i \in DOMAIN queue |-> IF HasResult(i) THEN 1 ELSE 0]
    /\ upstream = {}
    /\ upVersion = 0
    /\ token = "Existing"
    /\ TokenManagerInit(token, now + ExpiresIn)

Next ==
    \/ ConsumerFetch
    \/ ConsumerStart
    \/ \E item \in cInflight, hubOk \in BOOLEAN : ConsumerProcess(item, hubOk)
    \/ ConsumerDrained
    \/ ConsumerWake
    \/ ConsumerShutdown
    \/ ConsumerFetchFail
    \/ \E item \in cInflight, hubOk \in BOOLEAN, sent \in SUBSET cInflight :
          ConsumerInsertFail(item, hubOk, sent)
    \/ SchedCompute
    \/ SchedWake
    \/ SchedShutdown
    \/ \E req \in hubPending, lease \in LongLeases : HubConfirm(req, lease)
    \/ Supervisor
    \/ Restart

Spec == Init /\ [][Next]_vars
\* ---------------------------------------- the reconciliation specification
\* subscription_manager against the upstream list, the token manager and the
\* clock, while the hub verifies requests accepted earlier. The clock runs for
\* the last ReconHorizon hours.
InitRecon ==
    /\ now = MaxTime - ReconHorizon
    /\ InitMemory(FALSE, FALSE, TRUE)
    /\ hubPending = {}
    /\ known \in {Topics, Topics \ {"C"}}
    /\ registry \in [Topics -> {NoRow, 60}]
    /\ Rows \subseteq known
    /\ queue = <<>>
    /\ results = {}
    /\ hubCalls = <<>>
    /\ upstream \in SUBSET Topics
    /\ upVersion = 0
    /\ token \in {"Existing", "Missing"}
    \* the manager's own state is the subject of the token specification
    /\ TokenManagerInit("Existing", now + ExpiresIn)

NextRecon ==
    \/ ReconTick
    \/ ReconShutdown
    \/ ReconToken
    \/ \E failed \in BOOLEAN : ReconPage(failed)
    \/ ReconEnqueue
    \/ ReconAddChannels
    \/ Tick
    \/ \E U \in SUBSET Topics : UpstreamChange(U)
    \/ LoadNewToken
    \/ TokenLost
    \/ ShutdownSignal
    \/ Supervisor

ReconSpec == InitRecon /\ [][NextRecon]_vars

\* ------------------------------------------------ the scheduler specification
\* pubsub_refresh against the clock, while the hub verifies subscribe requests
\* it accepted earlier with either lease.
InitSched ==
    /\ now = 0
    /\ InitMemory(FALSE, TRUE, FALSE)
    /\ hubPending = {<<"subscribe", "A">>, <<"subscribe", "B">>}
    /\ known = Topics
    /\ registry \in {[t \in Topics |-> NoRow],
                     [t \in Topics |-> IF t = "A" THEN RefreshWindow ELSE NoRow]}
    /\ queue = <<>>
    /\ results = {}
    /\ hubCalls = <<>>
    /\ upstream = {} /\ upVersion = 0 /\ token = "Existing"
    /\ TokenManagerInit(token, now + ExpiresIn)

NextSched ==
    \/ SchedCompute
    \/ SchedWake
    \/ SchedShutdown
    \/ \E req \in hubPending, lease \in Leases : HubConfirm(req, lease)
    \/ Tick
    \/ ShutdownSignal
    \/ Supervisor

SchedSpec == InitSched /\ [][NextSched]_vars

\* ----------------------------------------------- the liveness specification
\* All three tasks and the hub under the hypotheses of the convergence and
\* queue-progress claims: the upstream list is fixed, a credential exists,
\* every channel is known, no store operation fails, every hub call succeeds,
\* nobody requests shutdown. Each task keeps running whenever it can take a
\* step (the tokio runtime polls every spawned task that is ready), and the hub
\* verifies every request it accepted. The clock runs for the last hour, enough
\* for a second reconciliation tick.
InitLive ==
    /\ now = MaxTime - 1
    /\ InitMemory(TRUE, TRUE, TRUE)
    /\ hubPending = {}
    /\ known = Topics
    /\ registry \in [Topics -> {NoRow, now + RefreshWindow - RefreshDelay}]
    /\ Rows \subseteq {"A"}
    /\ queue = <<>>
    /\ results = {}
    /\ hubCalls = <<>>
    /\ upstream \in {{}, {"A"}, {"B"}}
    /\ upVersion = 0
    /\ token = "Existing"
    /\ TokenManagerInit(token, now + ExpiresIn)

ConsumerStep ==
    \/ ConsumerFetch
    \/ ConsumerStart
    \/ \E item \in cInflight : ConsumerProcess(item, TRUE)
    \/ ConsumerDrained
    \/ ConsumerWake

SchedStep ==
    \/ SchedCompute
    \/ SchedWake

ReconStep ==
    \/ ReconTick
    \/ ReconToken
    \/ ReconPage(FALSE)
    \/ ReconEnqueue
    \/ ReconAddChannels

HubStep == \E req \in hubPending, lease \in LongLeases : HubConfirm(req, lease)

NextLive ==
    \/ ConsumerStep
    \/ SchedStep
    \/ ReconStep
    \/ HubStep
    \/ Tick

LiveSpec ==
    /\ InitLive
    /\ [][NextLive]_vars
    /\ WF_vars(ConsumerStep)
    /\ WF_vars(SchedStep)
    /\ WF_vars(ReconStep)
    /\ WF_vars(HubStep)

\* --------------------------------------------------- the token specification
\* wait_for_token called by the tasks of Callers and load_new_token called by
\* the web front end, against the provider and the clock. The manager starts
\* without a credential, or with one about to expire.
InitToken ==
    /\ now = MaxTime - TokenHorizon
    /\ InitMemory(FALSE, FALSE, FALSE)
    /\ hubPending = {}
    /\ known = Topics
    /\ registry = [t \in Topics |-> NoRow]
    /\ queue = <<>>
    /\ results = {}
    /\ hubCalls = <<>>
    /\ upstream = {} /\ upVersion = 0
    /\ token \in {"Existing", "Missing"}
    /\ TokenManagerInit(token, now)

NextToken ==
    \/ \E c \in Callers : WaitCall(c)
    \/ \E c \in Callers : WaitLock(c)
    \/ \E c \in Callers : WaitReturn(c)
    \/ \E c \in Callers : WaitRefreshRequest(c)
    \/ \E c \in Callers : WaitRefreshOk(c)
    \/ \E c \in Callers : WaitRefreshFail(c)
    \/ \E c \in Callers : WaitAlerted(c)
    \/ \E c \in Callers : WaitSendEmail(c)
    \/ \E c \in Callers : WaitSetAlerted(c)
    \/ \E c \in Callers : WaitUnlock(c)
    \/ \E c \in Callers : WaitNotified(c)
    \/ LoadCall
    \/ LoadExchangeFails
    \/ LoadExchange
    \/ LoadSetToken
    \/ LoadNotifyWaiters
    \/ \E ok \in BOOLEAN : LoadSaveToken(ok)
    \/ Tick

TokenSpec == InitToken /\ [][NextToken]_vars

\* ------------------------------------------------ the callback specification
\* GET requests on the callback route, with any query, against a registry that
\* holds rows for some of the known channels, while the clock runs for the
\* last hour.
InitWeb ==
    /\ now = MaxTime - 1
    /\ InitMemory(FALSE, FALSE, FALSE)
    /\ hubPending = {}
    /\ known = Topics \ {"C"}
    /\ registry \in [Topics -> {NoRow, 40}]
    /\ registry["A"] = 40
    /\ Rows \subseteq known
    /\ queue = <<>>
    /\ results = {}
    /\ hubCalls = <<>>
    /\ upstream = {} /\ upVersion = 0 /\ token = "Existing"
    /\ TokenManagerInit(token, now + ExpiresIn)

NextWeb ==
    \/ \E query \in Queries, dbOk \in BOOLEAN : PubsubSubscriptionValidation(query, dbOk)
    \/ Tick
    \/ ShutdownSignal

WebSpec == InitWeb /\ [][NextWeb]_vars

\* ---------------------------------------------- the whole-program specification
\* The three tasks, the hub and its verification of accepted requests, hub and
\* upstream failures, store failures of the consumer, the clock for the last
\* hour and shutdown. The registry has no row, or a row of A whose refresh is
\* due at once.
InitFull ==
    /\ now = MaxTime - 1
    /\ InitMemory(TRUE, TRUE, TRUE)
    /\ hubPending = {}
    /\ known = Topics
    /\ registry \in [Topics -> {NoRow, now + RefreshWindow - RefreshDelay}]
    /\ Rows \subseteq {"A"}
    /\ queue = <<>>
    /\ results = {}
    /\ hubCalls = <<>>
    /\ upstream \in {{}, {"A"}, {"B"}}
    /\ upVersion = 0
    /\ token = "Existing"
    /\ TokenManagerInit(token, now + ExpiresIn)

NextFull ==
    \/ ConsumerFetch
    \/ ConsumerStart
    \/ \E item \in cInflight, hubOk \in BOOLEAN : ConsumerProcess(item, hubOk)
    \/ ConsumerDrained
    \/ ConsumerWake
    \/ ConsumerShutdown
    \/ ConsumerFetchFail
    \/ \E item \in cInflight, hubOk \in BOOLEAN, sent \in SUBSET cInflight :
          ConsumerInsertFail(item, hubOk, sent)
    \/ SchedCompute
    \/ SchedWake
    \/ SchedShutdown
    \/ ReconTick
    \/ ReconShutdown
    \/ ReconToken
    \/ \E failed \in BOOLEAN : ReconPage(failed)
    \/ ReconEnqueue
    \/ ReconAddChannels
    \/ \E req \in hubPending, lease \in LongLeases : HubConfirm(req, lease)
    \/ Tick
    \/ ShutdownSignal
    \/ Supervisor

FullSpec == InitFull /\ [][NextFull]_vars

\* ------------------------------------------- the concurrency specification
\* One drain of up to MaxPending pending actions, none processed before, the
\* hub answering every call with 2xx (the answers do not matter to the number
\* of actions in progress).
InitPending ==
    /\ now = 1
    /\ InitMemory(TRUE, FALSE, FALSE)
    /\ hubPending = {}
    /\ known = Topics
    /\ registry = [t \in Topics |-> IF t = "C" THEN 30 ELSE NoRow]
    /\ \E n \in 0..MaxPending : queue = DrainQueue(n)
    /\ results = {}
    /\ hubCalls = [i \in DOMAIN queue |-> 0]
    /\ upstream = {} /\ upVersion = 0 /\ token = "Existing"
    /\ TokenManagerInit(token, now + ExpiresIn)

NextPending ==
    \/ ConsumerFetch
    \/ ConsumerStart
    \/ \E item \in cInflight : ConsumerProcess(item, TRUE)
    \/ ConsumerDrained

PendingSpec == InitPending /\ [][NextPending]_vars

\* ------------------------------------------------ the shutdown specification
\* The three tasks until shutdown is requested (by a signal, or by main when a
\* task has ended) and after it. The consumer starts with nothing or one
\* action pending, the scheduler sleeps on its timer (the fallback sleep, or
\* the sleep computed for the row of A), the manager may have no credential.
\* Every task that can take a step does so eventually (the runtime polls every
\* spawned task that is ready; a hub or upstream request is answered).
InitShutdown ==
    /\ now = MaxTime - 1
    /\ InitMemory(TRUE, TRUE, TRUE)
    /\ hubPending = {}
    /\ known = Topics
    /\ registry \in [Topics -> {NoRow, now + 60}]
    /\ Rows \subseteq {"A"}
    /\ queue \in {<<>>, <<[channel_id |-> "A", action |-> "Refresh", timestamp |-> 0]>>}
    /\ results = {}
    /\ hubCalls = [i \in DOMAIN queue |-> 0]
    /\ upstream \in {{}, {"A", "B"}}
    /\ upVersion = 0
    /\ token \in {"Existing", "Missing"}
    /\ TokenManagerInit("Existing", now + ExpiresIn)

ConsumerTask ==
    \/ ConsumerFetch
    \/ ConsumerStart
    \/ \E item \in cInflight, hubOk \in BOOLEAN : ConsumerProcess(item, hubOk)
    \/ ConsumerDrained
    \/ ConsumerWake
    \/ ConsumerShutdown

\* The scheduler's timer (24 h, or 37 h for the row of A) outlasts the clock of
\* this specification: its sleep ends by shutdown only.
SchedTask ==
    \/ SchedCompute
    \/ SchedShutdown

ReconTask ==
    \/ ReconTick
    \/ ReconShutdown
    \/ ReconToken
    \/ \E failed \in BOOLEAN : ReconPage(failed)
    \/ ReconEnqueue
    \/ ReconAddChannels

NextShutdown ==
    \/ ConsumerTask
    \/ SchedTask
    \/ ReconTask
    \/ HubStep
    \/ Tick
    \/ ShutdownSignal
    \/ Supervisor

ShutdownSpec ==
    /\ InitShutdown
    /\ [][NextShutdown]_vars
    /\ WF_vars(ConsumerTask)
    /\ WF_vars(SchedTask)
    /\ WF_vars(ReconTask)

\* ------------------------------------------------------------- the claims
RowsOf(i) == {r \in results : r.queue_id = i}

\* Rows the drain specification starts with (written at instant 0, before now).
OldRows == {r \in results : r.timestamp < now}

C4_ResultWrittenOnce ==
    /\ [](\A r1, r2 \in results : r1.queue_id = r2.queue_id => r1 = r2)
    /\ [][results \subseteq results']_vars

\* An action whose hub call was issued twice (before and after a restart) and
\* whose row stands next to another action's row.
C4_Witness ==
    /\ restarts = 1
    /\ \E i \in DOMAIN queue : hubCalls[i] = 2 /\ HasResult(i)
    /\ Cardinality(results) = 2

\* C5: an action with a result row is never in the consumer's fetched stream or
\* among its running items, and no step issues a hub call for it.
C5_ProcessedNotRetried ==
    /\ [](\A item \in cInflight \cup {cStream[k] : k \in DOMAIN cStream} :
             ~HasResult(item.id))
    /\ [][\A i \in DOMAIN queue : HasResult(i) => hubCalls'[i] = hubCalls[i]]_vars

\* After a restart a drain has completed next to an action that ended with an
\* error: it still has its one hub call, and the other action got its row.
C5_Witness ==
    /\ restarts = 1
    /\ cPc = "wait"
    /\ Len(queue) = 2
    /\ \E r \in results : r.queue_id = 1 /\ r.error = "Some" /\ r.timestamp = 0
    /\ hubCalls[1] = 1
    /\ HasResult(2)

\* C6: while a Refresh whose join found no active subscription is being
\* processed, no hub call is issued for it, and the row written for it has no
\* error.
C6_RefreshWithoutSubscription ==
    [][\A item \in cInflight :
          (queue[item.id].action = "Refresh" /\ ~item.active) =>
              /\ hubCalls'[item.id] = hubCalls[item.id]
              /\ \A r \in results' : r.queue_id = item.id => r.error = "None"]_vars

C6_Witness ==
    \E i \in DOMAIN queue :
        /\ queue[i].action = "Refresh"
        /\ registry[queue[i].channel_id] = NoRow
        /\ hubCalls[i] = 0
        /\ \E r \in results : r.queue_id = i /\ r.error = "None"
\* The rows a step appended to the queue.
Appended == SubSeq(queue', Len(queue) + 1, Len(queue'))

CountOf(rows, channel, action) ==
    Cardinality({k \in DOMAIN rows : rows[k].channel_id = channel /\ rows[k].action = action})

\* C7: the step that ends the fetch of a tick (previous = P read at the start,
\* current = the upstream list C returned in full) appends exactly one
\* Subscribe for each id of C \ P, one Unsubscribe for each id of P \ C, and
\* nothing else.
C7_DiffEnqueued ==
    [][(rPc = "enqueue" /\ rPc' # "enqueue") =>
          \A t \in Topics :
              /\ CountOf(Appended, t, "Subscribe") = (IF t \in rCollected \ rPrevious THEN 1 ELSE 0)
              /\ CountOf(Appended, t, "Unsubscribe") = (IF t \in rPrevious \ rCollected THEN 1 ELSE 0)
              /\ CountOf(Appended, t, "Refresh") = 0]_vars

\* C8: the steps of a tick that the upstream answers with Not Modified (the
\* tick itself, the token, the conditional request) leave the queue, the
\* registry, the known channels and the last-seen ETag as they were, and the
\* Not Modified answer is the last step of the tick.
NotModified == rPc = "fetch" /\ rLastEtag = Etag(PageOf(rPageToken))

C8_NotModifiedWritesNothing ==
    [][((rPc \in {"tick", "token"} \/ NotModified) /\ rPc' # rPc) =>
          /\ UNCHANGED <<queue, registry, known, rLastEtag>>
          /\ NotModified => rPc' \in {"tick", "done"}]_vars

\* The loop has just ended on a Not Modified answer to its first-page ETag.
C8_Witness ==
    /\ rPc = "done"
    /\ ~shutdown
    /\ rLastEtag = Etag(1)
    /\ rPageToken = 0
    /\ queue # <<>>

\* C9: the reconciliation loop ends only when shutdown is requested or the
\* store fails; a Not Modified or non-success answer does not end it.
C9_LoopSurvivesTick == rPc = "done" => shutdown

\* C10: while the scheduler runs, every registry row whose expiration is less
\* than the delay away has a Refresh of its topic in the queue, enqueued no
\* later than expiration - delay.
C10_RefreshBeforeExpiry ==
    \A t \in Rows :
        (sPc \in {"compute", "sleep"} /\ now > registry[t] - RefreshDelay) =>
            \E i \in DOMAIN queue :
                /\ queue[i].channel_id = t
                /\ queue[i].action = "Refresh"
                /\ queue[i].timestamp <= registry[t] - RefreshDelay
\* C1: with the upstream list fixed, once the reconciliation loop has ended,
\* every action has its result and the hub has verified every request, the
\* registry holds exactly the upstream list.
C1_Converged ==
    (/\ rPc \in Exited
     /\ \A i \in DOMAIN queue : HasResult(i)
     /\ cInflight = {}
     /\ hubPending = {}) => Rows = upstream

\* C3: every row of the queue, whenever it was inserted, eventually has a
\* result row.
C3_EveryActionGetsResult ==
    \A i \in 1..(MaxQueue + Cardinality(Topics)) : (i \in DOMAIN queue) ~> HasResult(i)

\* A row the running scheduler or manager inserted (not one the store started
\* with) after the consumer had drained once has its result.
C3_Witness ==
    \E i, j \in DOMAIN queue :
        /\ i < j
        /\ queue[i].action # "Refresh" /\ queue[j].action = "Refresh"
        /\ HasResult(i) /\ HasResult(j)
        /\ cPc = "wait"
\* C11: every iteration of the scheduler's loop that ends, with its enqueue or
\* with the end of the task, has appended exactly one Refresh for each
\* registry row with expiration - now <= window - delay.
C11_OneRefreshPerTick ==
    [][(sPc \in {"compute", "sleep"} /\ sPc' \in {"compute", "panicked", "failed"} /\ sPc' # sPc) =>
          \A t \in Rows :
              registry[t] - now <= RefreshWindow - RefreshDelay =>
                  CountOf(Appended, t, "Refresh") = 1]_vars

\* C12: for a soonest expiration e the scheduler goes to sleep for
\* max(0, (e - now) - (window - delay)) and does not end.
C12_SleepIsClamped ==
    [][(sPc = "compute" /\ sPc' # sPc /\ GetSoonestExpiration # NoRow) =>
          /\ sPc' = "sleep"
          /\ sWakeAt' = now + (IF SleepFor(GetSoonestExpiration) < 0 THEN 0
                               ELSE SleepFor(GetSoonestExpiration))]_vars

\* C13 (as the code has it): without a registry row the scheduler sleeps the
\* fallback duration and enqueues nothing before and during the sleep; unless
\* shutdown ends it, the sleep ends exactly then with one Refresh for each row
\* that by then expires before now + window (rows confirmed during the sleep;
\* none when the registry is still empty), and only then comes the next query.
C13_FallbackSleep ==
    [][/\ (sPc = "compute" /\ sPc' # sPc /\ GetSoonestExpiration = NoRow) =>
            /\ sPc' = "sleep"
            /\ sWakeAt' = now + FallbackSleep
            /\ queue' = queue
       /\ (sPc = "sleep" /\ sSoonest = NoRow) =>
            /\ sPc' \in {"sleep", "compute", "done"}
            /\ queue' # queue => sPc' = "compute"
            /\ sPc' = "compute" =>
                 /\ now = sWakeAt
                 /\ \A t \in Topics :
                      CountOf(Appended, t, "Refresh") =
                          (IF t \in GetExpiring(now + RefreshWindow) THEN 1 ELSE 0)]_vars

\* The fallback sleep has ended with a Refresh for a row the hub confirmed
\* while the scheduler slept.
C13_Witness ==
    /\ sPc = "compute"
    /\ sSoonest = NoRow
    /\ now = FallbackSleep
    /\ \E i \in DOMAIN queue : queue[i].action = "Refresh" /\ queue[i].timestamp = now

\* C13 as stated: the iteration that found no registry row enqueues no Refresh
\* between its sleep and the next query.
C13_FallbackEnqueuesNothing ==
    [][(sPc = "sleep" /\ sSoonest = NoRow /\ sPc' = "compute") =>
          now = sWakeAt /\ queue' = queue]_vars
\* The credential in memory is usable now.
Usable == current_token.status = "Existing" /\ now <= current_token.cred.expires_at

\* The calls that have been through the match of their loop iteration.
PastMatch == {c \in Callers : wPc[c] \in {"unlock", "unlocked", "waiting"}}

\* C14: while the manager is Missing (no credential loaded since it started
\* Missing, not alerted), at most one alert has been sent whatever the number
\* of calls, the flag is set only with that alert, and once a call is past its
\* match the alert is sent and the flag is set.
C14_OneAlertWhileMissing ==
    current_token.status = "Missing" =>
        /\ alerts <= 1
        /\ current_token.alerted => alerts = 1
        /\ PastMatch # {} => (alerts = 1 /\ current_token.alerted)

\* Both calls wait on the wake signal after one alert.
C14_Witness ==
    /\ current_token.status = "Missing"
    /\ \A c \in Callers : wPc[c] = "waiting"
    /\ alerts = 1
    /\ current_token.alerted

\* C15: an alert for a failed refresh is sent only for a credential the store
\* still holds; once the failure has removed it (the demotion), no further
\* call sends another alert for it.
C15_OneAlertPerDemotion ==
    [][(alerts' = alerts + 1 /\ current_token.status = "Existing") => oauthRow # NoCred]_vars

\* C16: a call that finds the credential expired and whose refresh fails
\* leaves the state Missing in memory, the store without credential, one more
\* alert sent, and goes on to wait without returning.
C16_FailedRefreshDemotes ==
    [][\A c \in Callers :
          (wPc[c] = "refresh" /\ current_token.status = "Existing" /\ wPc'[c] = "unlock") =>
              /\ current_token'.status = "Missing"
              /\ oauthRow' = NoCred
              /\ alerts' = alerts + 1
              /\ wResult'[c] = 0]_vars

\* C17: a call that finds the credential expired and whose refresh succeeds
\* returns the new token, and the store and the state in memory both hold the
\* new credential.
C17_RefreshedCredentialKept ==
    [][\A c \in Callers :
          (wPc[c] = "refresh" /\ wPc'[c] = "idle") =>
              /\ wResult'[c] = oauthRow'.id
              /\ oauthRow'.id = issued'
              /\ current_token' = [status |-> "Existing", alerted |-> FALSE, cred |-> oauthRow']]_vars

\* C18: once load_new_token has set and announced a credential that is still
\* usable, no call is left waiting on the wake signal.
C18_NoWaiterLeftBehind ==
    (Usable /\ lPc # "notify") => \A c \in Callers : wPc[c] # "waiting"

\* C19: a call that finds a credential with expires_at later than now returns
\* its access token and changes nothing: no refresh request, no alert, no
\* store write, the same state in memory.
C19_ValidTokenReturned ==
    [][\A c \in Callers :
          (/\ wPc[c] = "match"
           /\ current_token.status = "Existing"
           /\ now < current_token.cred.expires_at
           /\ wPc'[c] # "match") =>
              /\ wPc'[c] = "idle"
              /\ wResult'[c] = current_token.cred.id
              /\ UNCHANGED <<current_token, oauthRow, alerts, refreshes>>]_vars

\* A call has returned the credential in memory, which is not yet expired, and
\* no refresh was ever requested.
C19_Witness ==
    /\ \E c \in Callers : wResult[c] = current_token.cred.id /\ wPc[c] = "idle"
    /\ current_token.status = "Existing"
    /\ now < current_token.cred.expires_at
    /\ refreshes = 0

\* C20: a step in which load_new_token fails at the exchange leaves the state
\* in memory and the store as they were and wakes no waiting call.
C20_FailedExchangeChangesNothing ==
    [][(lPc = "exchange" /\ lPc' = "idle") =>
          /\ lResult' = "Err"
          /\ UNCHANGED <<current_token, oauthRow, wPc>>]_vars

\* The exchange has failed while a call waits for the credential.
C20_Witness ==
    /\ lResult = "Err"
    /\ lPc = "idle"
    /\ current_token.status = "Missing"
    /\ \E c \in Callers : wPc[c] = "waiting"

\* C21: whenever no wait_for_token and no load_new_token call is under way,
\* the state in memory is Existing with the stored credential when the store
\* holds one, and Missing when the store holds none.
C21_MemoryMirrorsStore ==
    ((\A c \in Callers : wPc[c] = "idle") /\ lPc = "idle") =>
        IF current_token.status = "Existing"
        THEN oauthRow = current_token.cred
        ELSE oauthRow = NoCred

\* The step is the callback handler answering `query`, the store executing its
\* statement.
Validated(query) == PubsubSubscriptionValidation(query, TRUE)

\* The channel a well-formed query names.
TopicOf(query) == ChannelIdFromTopicUrl(query.topic[1])

C24_UnsubscribeConfirmation ==
    [][(Validated(vQuery') /\ HubChallenge(vQuery') = "Unsubscribe") =>
          /\ \A t \in Topics :
                registry'[t] = (IF t = TopicOf(vQuery') THEN NoRow ELSE registry[t])
          /\ vResponse' = [status |-> "OK", body |-> vQuery'.challenge[1]]]_vars

\* The only request so far was an unsubscribe confirmation for A: its row is
\* gone and the row of B is still there.
C24_Witness ==
    /\ vHandled = 1
    /\ vQuery.mode = <<"unsubscribe">>
    /\ vQuery.topic = <<FeedUrl("A")>>
    /\ vResponse = [status |-> "OK", body |-> "c1"]
    /\ registry["A"] = NoRow
    /\ registry["B"] = 40

\* A malformed confirmation request: hub.mode unknown or missing, hub.topic or
\* hub.challenge missing, hub.lease_seconds missing or not a number on subscribe.
Malformed(query) ==
    \/ query.mode \notin {<<"subscribe">>, <<"unsubscribe">>}
    \/ Len(query.topic) = 0
    \/ Len(query.challenge) = 0
    \/ /\ query.mode = <<"subscribe">>
       /\ (Len(query.lease_seconds) = 0 \/ ~query.lease_seconds[1].digits)

\* C25: every malformed confirmation request is answered with a client error
\* and leaves the registry and the queue as they were.
C25_MalformedRejected ==
    [][(vHandled' = vHandled + 1 /\ Malformed(vQuery')) =>
          /\ vResponse'.status = "BAD_REQUEST"
          /\ UNCHANGED <<registry, queue>>]_vars

\* C22: every step that inserts, updates or deletes a registry row is a step
\* of the confirmation callback's handler; the steps of the scheduler, of the
\* reconciliation loop and of the consumer, whatever the hub answers, leave
\* the registry as it was.
C22_RegistryChangedByCallbackOnly ==
    [][(registry' # registry) =>
          \/ \E req \in hubPending, lease \in Leases : HubConfirm(req, lease)
          \/ \E query \in Queries, dbOk \in BOOLEAN : PubsubSubscriptionValidation(query, dbOk)]_vars

\* The consumer's Subscribe for B has its result without error and the hub's
\* confirmation has inserted the row of B.
C22_Witness ==
    /\ registry["B"] # NoRow
    /\ \E i \in DOMAIN queue :
          /\ queue[i].channel_id = "B"
          /\ queue[i].action = "Subscribe"
          /\ \E r \in results : r.queue_id = i /\ r.error = "None"

\* C27: at every moment at most ConcurrencyLimit (10) pending actions are
\* being processed (started, result row not yet written), however many are
\* pending.
C27_ConcurrencyBounded == Cardinality(cInflight) <= ConcurrencyLimit

\* Ten actions are being processed while another one waits in the stream.
C27_Witness ==
    /\ Cardinality(cInflight) = ConcurrencyLimit
    /\ cStream # <<>>
    /\ \A item \in cInflight : ~HasResult(item.id)

\* C26: once shutdown is requested, the consumer, the scheduler and the
\* reconciliation loop each end, wherever they are: on a timer, waiting for
\* the wake signal, waiting for a credential, or in a drain.
C26_ShutdownEndsTasks ==
    shutdown ~> (cPc \in Exited /\ sPc \in Exited /\ rPc \in Exited)

\* All three have ended on the signal: the loop while it waited for a
\* credential (it had ticked and there is none), the scheduler before its
\* timer fired, the consumer after it had drained its queue.
C26_Witness ==
    /\ shutdown
    /\ cPc = "done" /\ sPc = "done" /\ rPc = "done"
    /\ token = "Missing" /\ rNextTick > now
    /\ sWakeAt > now
    /\ queue # <<>>
    /\ \A i \in DOMAIN queue : HasResult(i)

\* The ids of the queue rows without a result row.
PendingIds == {i \in DOMAIN queue : ~HasResult(i)}

\* C28: a batch stores the one wake, however many rows it inserts and whether
\* or not a wake is stored already; a wake-up of the consumer takes the stored
\* wake and leaves none, so that the batches before it cause that one wake-up;
\* and the query after a wake-up returns every pending action, whichever batch
\* inserted it.
C28_WakeCoalesced ==
    [][/\ (queue' # queue) => permit'
       /\ (cPc = "wait" /\ cPc' = "fetch") => (permit /\ ~permit')
       /\ (cPc = "fetch" /\ cPc' = "drain") =>
             {cStream'[k].id : k \in DOMAIN cStream'} = PendingIds]_vars

\* After one wake-up (no wake is stored any more) the consumer has fetched the
\* actions of two batches, the scheduler's and the reconciliation loop's.
C28_Witness ==
    /\ cPc = "drain"
    /\ ~permit
    /\ Len(cStream) = 2
    /\ queue[cStream[1].id].action = "Refresh" \/ queue[cStream[2].id].action = "Refresh"
    /\ queue[cStream[1].id].action # "Refresh" \/ queue[cStream[2].id].action # "Refresh"

\* C29: once the reconciliation loop has ended by itself after a successful
\* fetch (no shutdown was requested; no further pass will come), every
\* Subscribe that ended with an error and is still needed (its channel is in
\* the upstream list and has no registry row) has been followed by a new
\* action for its channel.
C29_FailedActionRetried ==
    \A i \in DOMAIN queue :
        (/\ rPc = "done" /\ ~shutdown /\ rLastEtag = Etag(1)
         /\ queue[i].action = "Subscribe"
         /\ \E r \in results : r.queue_id = i /\ r.error = "Some"
         /\ queue[i].channel_id \in upstream
         /\ registry[queue[i].channel_id] = NoRow) =>
            \E j \in DOMAIN queue : j > i /\ queue[j].channel_id = queue[i].channel_id

\* C30: a step in which a read or write of the store fails during the
\* consumer's fetch or drain ends the task with the error and writes no
\* result row, not even an error row; the ended task writes none either, so
\* the actions without a row stay pending; and the fetch of the next start
\* returns every one of them.
C30_StoreFailureEndsConsumer ==
    [][/\ (cPc \in {"fetch", "drain"} /\ cPc' = "failed") => results' = results
       /\ (cPc = "failed") => (results' = results /\ cPc' \in {"failed", "fetch"})
       /\ (cPc = "failed" /\ cPc' = "fetch") => restarts' = restarts + 1
       /\ (cPc = "fetch" /\ cPc' = "drain") =>
             {cStream'[k].id : k \in DOMAIN cStream'} = {i \in DOMAIN queue : ~HasResult(i)}]_vars

\* After the restart the consumer has fetched again an action whose hub call
\* was issued before the store failed and whose result was never written.
C30_Witness ==
    /\ restarts = 1
    /\ cPc = "drain"
    /\ \E k \in DOMAIN cStream : hubCalls[cStream[k].id] = 1 /\ ~HasResult(cStream[k].id)

\* The items whose result row the step has written.
Completed == {item \in cInflight : ~HasResult(item.id) /\ \E r \in results' : r.queue_id = item.id}

\* The request the action of a fetched item calls for: none for a Refresh
\* whose join found no subscription.
Expected(item) ==
    IF queue[item.id].action = "Unsubscribe"
    THEN {<<"unsubscribe", queue[item.id].channel_id>>}
    ELSE IF queue[item.id].action = "Subscribe" \/ item.active
    THEN {<<"subscribe", queue[item.id].channel_id>>}
    ELSE {}

\* C31: the processing of a pending action issues at most one hub call, for
\* no other action in the same step; the request the hub accepts has the mode
\* of the action (subscribe for Subscribe and for Refresh with an active
\* subscription in the fetched join, unsubscribe for Unsubscribe) and its
\* topic; a call the hub accepted is recorded without error; and within one
\* drain no action has more than one call.
C31_OneCallPerAction ==
    /\ [][\A item \in Completed :
             /\ hubCalls'[item.id] = hubCalls[item.id] + Cardinality(Expected(item))
             /\ \A j \in DOMAIN hubCalls \ {item.id} : hubCalls'[j] = hubCalls[j]
             /\ hubPending' \ hubPending \subseteq Expected(item)
             /\ hubPending' # hubPending =>
                    \A r \in results' : r.queue_id = item.id => r.error = "None"
             /\ (\E r \in results' : r.queue_id = item.id /\ r.error = "None") =>
                    Expected(item) \subseteq hubPending']_vars
    /\ [](\A i \in DOMAIN hubCalls : hubCalls[i] <= 1)

\* The Refresh of the active subscription of C had its one call, which the hub
\* accepted as a subscribe request, and its row without error, while the
\* Unsubscribe of A was accepted as an unsubscribe request.
C31_Witness ==
    /\ \E i \in DOMAIN queue :
          /\ queue[i].action = "Refresh" /\ queue[i].channel_id = "C"
          /\ hubCalls[i] = 1
          /\ \E r \in results : r.queue_id = i /\ r.error = "None"
    /\ <<"subscribe", "C">> \in hubPending
    /\ <<"unsubscribe", "A">> \in hubPending
    /\ <<"unsubscribe", "C">> \notin hubPending

\* C32: the step in which the scheduler's sleep ends and it enqueues appends
\* one Refresh for each topic whose registry row expires strictly before
\* now + window at that moment, appends nothing for any other topic and no
\* other action, and leaves the rows already in the queue as they were.
C32_EnqueuesExactlyTheExpiring ==
    [][(sPc = "sleep" /\ sPc' = "compute") =>
          /\ SubSeq(queue', 1, Len(queue)) = queue
          /\ \A t \in Topics :
                /\ CountOf(Appended, t, "Refresh") =
                      (IF registry[t] # NoRow /\ registry[t] < now + RefreshWindow THEN 1 ELSE 0)
                /\ CountOf(Appended, t, "Subscribe") = 0
                /\ CountOf(Appended, t, "Unsubscribe") = 0]_vars

\* The sleep has ended at hour 24 with the row of B expiring before hour 48
\* and the row of A expiring exactly at hour 48: the queue holds the Refresh
\* of B and none of A.
C32_Witness ==
    /\ sPc = "compute"
    /\ now = FallbackSleep
    /\ registry["A"] = now + RefreshWindow
    /\ registry["B"] = now + RefreshWindow - 1
    /\ Len(queue) = 1
    /\ queue[1] = [channel_id |-> "B", action |-> "Refresh", timestamp |-> now]

\* The step is a page of the fetch answered with success.
PageFetched == rPc = "fetch" /\ (rPc' = "enqueue" \/ rPageToken' # rPageToken)

\* C33: a successful answer to the first request of a fetch sets the last-seen
\* ETag to that page's ETag; a successful answer to a later page leaves it as
\* it is; no step between the end of the fetch and the first request of the
\* next tick changes it, so that request carries the first page's ETag; and
\* the last-seen ETag is never the ETag of a later page.
C33_FirstPageEtagOnly ==
    /\ [][/\ (PageFetched /\ rPageToken = 0) => rLastEtag' = <<upVersion, 1>>
          /\ (PageFetched /\ rPageToken # 0) => rLastEtag' = rLastEtag
          /\ (rPc \in {"enqueue", "upsert", "tick", "token"}) => rLastEtag' = rLastEtag]_vars
    /\ [](rLastEtag # NoEtag => rLastEtag[2] = 1)

\* The first request of the second tick is about to be sent after a fetch of
\* two pages whose three channels were enqueued: the last-seen ETag is the one
\* of the first page.
C33_Witness ==
    /\ rPc = "fetch"
    /\ rPageToken = 0
    /\ rCollected = {}
    /\ Len(queue) = Cardinality(Topics)
    /\ known = Topics
    /\ rLastEtag = <<0, 1>>

\* C34: a call returns the credential in memory without a refresh request
\* only when its expires_at is strictly later than now; with expires_at equal
\* to now the call goes on to request a refresh.
C34_ExpiryInstantIsExpired ==
    [][\A c \in Callers :
          (wPc[c] = "match" /\ current_token.status = "Existing" /\ wPc'[c] # "match") =>
              IF now < current_token.cred.expires_at
              THEN wPc'[c] = "idle" /\ refreshes' = refreshes
              ELSE wPc'[c] = "refresh" /\ refreshes' = refreshes + 1]_vars

\* The calls whose refresh-token request is in flight.
Refreshing == {c \in Callers : wPc[c] = "refresh"}

\* C36: at most one refresh-token request is in flight at any time, and the
\* call it belongs to holds the guard from its match until the response is
\* handled, so that no other call is past the lock meanwhile.
C36_OneRefreshInFlight ==
    /\ Cardinality(Refreshing) <= 1
    /\ \A c \in Refreshing :
          /\ tLock = c
          /\ \A d \in Callers \ {c} : wPc[d] \in {"idle", "lock", "unlocked", "waiting"}

\* The second refresh-token request is in flight, its call holding the guard,
\* while the other call waits for the guard.
C36_Witness ==
    /\ refreshes = 2
    /\ \E c \in Callers : \E d \in Callers \ {c} :
          /\ wPc[c] = "refresh"
          /\ tLock = c
          /\ wPc[d] = "lock"

\* C35: every call that finds the credential in memory expired requests a
\* refresh of its own, also when another call has refreshed that same
\* credential before and its result is in the store: the requests for one
\* expiry are not merged.
C35_RefreshNotCoalesced ==
    [][\A c \in Callers :
          (/\ wPc[c] = "match"
           /\ current_token.status = "Existing"
           /\ now > current_token.cred.expires_at
           /\ wPc'[c] # "match") =>
              /\ wPc'[c] = "refresh"
              /\ refreshes' = refreshes + 1]_vars

\* One call has returned the credential its refresh obtained, and the other
\* call, finding the same expired credential in memory, has its own request
\* in flight: two requests for the one expiry.
C35_Witness ==
    /\ refreshes = 2
    /\ current_token.status = "Existing"
    /\ current_token.cred.id = 1
    /\ \E c \in Callers : \E d \in Callers \ {c} :
          /\ wPc[c] = "idle" /\ wResult[c] = 2
          /\ wPc[d] = "refresh"

\* The calls blocked on the wake signal, or about to be.
Blocked == {c \in Callers : wPc[c] \in {"unlocked", "waiting"}}

\* C37: a call that is blocked on the wake signal does not hold the guard;
\* whoever holds the guard while load_new_token wants it is a call that is
\* still running towards its release; and when every call is blocked on the
\* wake signal, load_new_token can take the guard and set the credential.
C37_GuardFreeWhileWaiting ==
    /\ \A c \in Blocked : tLock # c
    /\ (lPc = "set" /\ tLock # "none") => wPc[tLock] \in {"match", "refresh", "flag", "unlock"}
    /\ (lPc = "set" /\ Blocked = Callers) => ENABLED LoadSetToken

\* load_new_token has set the credential while both calls were blocked on
\* the wake signal.
C37_Witness ==
    /\ lPc = "notify"
    /\ Blocked = Callers
    /\ \A c \in Callers : wPc[c] = "waiting"
    /\ current_token = [status |-> "Existing", alerted |-> FALSE, cred |-> lCred]

\* C38: the queue never holds two Refresh rows of one topic of which the
\* earlier is still pending while the registry row is the one it was enqueued
\* for. The hub grants leases longer than the window here, so a row that
\* expires before the earlier Refresh's time + window has not been renewed
\* since that Refresh was enqueued.
C38_NoDuplicateRefresh ==
    \A i, j \in DOMAIN queue :
        (/\ i < j
         /\ queue[i].action = "Refresh" /\ queue[j].action = "Refresh"
         /\ queue[i].channel_id = queue[j].channel_id
         /\ ~HasResult(i)) =>
            \/ registry[queue[i].channel_id] = NoRow
            \/ registry[queue[i].channel_id] >= queue[i].timestamp + RefreshWindow

\* C39: when a tick inserts its batch into the queue, every channel of the
\* batch has its known_channels row, so the insert is not refused; and every
\* queue row's channel is known.
C39_KnownBeforeQueued ==
    /\ [][(rPc = "enqueue" /\ rPc' # rPc) =>
             /\ BatchIds(DiffBatch(rPrevious, rCollected)) \subseteq known
             /\ rPc' = "upsert"]_vars
    /\ [](\A i \in DOMAIN queue : queue[i].channel_id \in known)

\* The loop is in its first tick (the store of the next tick's time is the
\* first one the interval computes).
FirstTick == rNextTick = MaxTime - ReconHorizon + UpdateInterval

\* C40: a fetch whose first page succeeded and whose later page failed leaves
\* the last-seen ETag at the value it had before the tick: in the first tick,
\* no ETag.
C40_EtagKeptOnFailedFetch ==
    (FirstTick /\ rPc = "done" /\ rPageToken # 0) => rLastEtag = NoEtag
====
